---- MODULE Spec2Model ----
(***************************************************************************)
(* Staged publish, as the two scripts of the repository implement it:      *)
(*                                                                         *)
(*   src/maya/save_maya_shelves.py     submit_file_to_perforce and         *)
(*                                     checkout_p4_file (a revision-       *)
(*                                     controlled destination), checked    *)
(*                                     under the specification Spec;       *)
(*   src/houdini/submit_to_deadline.py SubmitToDeadline.doIt and its       *)
(*                                     helpers (a shared-filesystem        *)
(*                                     destination), checked under the     *)
(*                                     specification SpecFarm;             *)
(*   src/maya/save_maya_shelves.py     SaveShelfDialog.save_callback and   *)
(*                                     get_shelf_dir_by_context, checked   *)
(*                                     under the specification SpecDialog; *)
(*   src/maya/save_maya_shelves.py     sort_shelves_from_ref_list, checked *)
(*                                     under the specification SpecSort.   *)
(*                                                                         *)
(* The Perforce server and the P4Python client are not part of the         *)
(* repository.  They are modelled as the environment: one depot file with  *)
(* a linear history, the set of users holding it open, and per user a      *)
(* workspace copy with its have revision.  Every P4 call may raise         *)
(* P4Exception (connectivity).  With exception_level = 1 (line 200) a      *)
(* warning such as "no such file(s)" raises nothing and the call returns   *)
(* an empty list.  "opened" is taken to report every user holding the file *)
(* open, and "diff" to return a non-empty list exactly when the workspace  *)
(* file differs from the revision it was opened at.                        *)
(***************************************************************************)
EXTENDS Integers, Sequences, FiniteSets, TLC

\* ---------------------------------------------------------------- bounds
MaxCalls == 2      \* invocations of submit_file_to_perforce in one behaviour
MaxContent == 2    \* distinct shelf file contents
MaxRuns == 2       \* doIt calls in one behaviour
MaxTime == 1       \* last second of the wall clock

Submitters == {"s1", "s2"}
Names == {"sceneA", "sceneB"}

Callers == {"alice", "bob"}
Contents == 1..MaxContent
NoFile == 0

VARIABLES
    depot,       \* the depot file's revisions, oldest first; headRev = Len(depot)
    openedBy,    \* the users holding the depot file open (edit or add)
    haveRev,     \* per user: the revision synced to the workspace
    baseRev,     \* per user: the revision the open file is based on
    ws,          \* per user: content of global_shelf_path in the workspace
    local,       \* per user: content of local_shelf_path
    pc,          \* per user: position inside submit_file_to_perforce
    cur,         \* per user: record of the running or last invocation
    prev,        \* per user: record of the invocation before that
    dirty,       \* per user: another user changed the server since the last return
    calls        \* invocations started so far

p4vars == <<depot, openedBy, haveRev, baseRev, ws, local, pc, cur, prev, dirty, calls>>

\* state of the render submission (src/houdini/submit_to_deadline.py)
VARIABLES
    now,                  \* the wall clock, in seconds
    dirs,                 \* directories present on the shared drive (paths)
    files,                \* files present on the shared drive: [path, by]
    destination_folder,   \* per submitter object: self._destination_folder
    filename,             \* per submitter object: self.filename
    fpc,                  \* per submitter object: position inside doIt
    job,                  \* per submitter object: the running or last doIt
    runs                  \* doIt calls started so far

farmvars == <<now, dirs, files, destination_folder, filename, fpc, job, runs>>

\* state of the save dialog (SaveShelfDialog and the shelf directories,
\* src/maya/save_maya_shelves.py)
VARIABLES
    isdir,            \* the paths for which os.path.isdir is true
    shelf,            \* the last get_shelf_dir_by_context call and its result
    local_save_only,  \* the 'Local Save Only' check box as the user left it
    depth,            \* save_callback frames on the call stack
    dpc,              \* position of the innermost save_callback frame
    dlg               \* what the dialog did since Save was pressed

dlgvars == <<isdir, shelf, local_save_only, depth, dpc, dlg>>

\* state of the shelf ordering (get_ordered_shelves,
\* src/maya/save_maya_shelves.py)
VARIABLES
    shelf_list,       \* the shelf names as os.listdir gave them
    ordered_list      \* what sort_shelves_from_ref_list returned for them

sortvars == <<shelf_list, ordered_list>>

\* ------------------------------------------------------ python primitives
\* list[i] with an int index: the element, or IndexError.
ListGetInt(list, i) ==
    IF i + 1 \in 1..Len(list)
    THEN [exc |-> "", val |-> list[i + 1]]
    ELSE [exc |-> "IndexError", val |-> <<>>]

\* list[key] with a str index: "list indices must be integers or slices".
ListGetKey(list, key) == [exc |-> "TypeError", val |-> <<>>]

\* ------------------------------------------------------- perforce replies
HeadRev == Len(depot)
ContentAt(rev) == IF rev \in 1..Len(depot) THEN depot[rev] ELSE NoFile

\* p4.run("fstat", path): one record, or nothing (a warning) for a file
\* that has no history and is not open in the caller's workspace.
FstatReply(c) ==
    IF HeadRev = 0 /\ c \notin openedBy
    THEN <<>>
    ELSE <<[haveRev |-> haveRev[c], headRev |-> HeadRev]>>

RECURSIVE SetToSeq(_)
SetToSeq(S) ==
    IF S = {} THEN <<>>
    ELSE LET x == CHOOSE y \in S : TRUE IN <<x>> \o SetToSeq(S \ {x})

\* p4.run("opened", path): one record per user holding the file open.
OpenedReply == SetToSeq({[user |-> u] : u \in openedBy})

\* p4.run("files", path): empty (a warning) when the file has no history.
FilesReply == IF HeadRev = 0 THEN <<>> ELSE <<[rev |-> HeadRev]>>

\* p4.run("diff", path): non-empty iff the workspace file differs from the
\* revision it was opened at.
DiffReply(c) == IF ws[c] # ContentAt(baseRev[c]) THEN <<"diff">> ELSE <<>>

\* ---------------------------------------------------- invocation records
Fresh(content) ==
    [content   |-> content,   \* local shelf content at the call
     free      |-> FALSE,     \* at the call: nobody holds the file open
     change    |-> FALSE,     \* at the call: the file has history and its head
                              \* differs from content
     log       |-> <<>>,      \* P4 calls and file copies invoked, in order
     failed    |-> "",        \* the call that raised, if any
     file_info |-> <<>>,      \* fstat record read at line 164
     sawOther  |-> FALSE,     \* "opened" named a user other than the caller
     sawSelf   |-> FALSE,     \* "opened" named the caller
     outcome   |-> "none",    \* which return statement ended the call
     retval    |-> "none",    \* "True" / "False" as returned to the caller
     exception |-> "",        \* exception that escaped the function
     interfered |-> FALSE]    \* another user changed the server meanwhile

\* What is kept of an invocation once the next one starts.
Summary(rec) == [content |-> rec.content, outcome |-> rec.outcome, log |-> rec.log]

Logged(c, op) == [cur[c] EXCEPT !.log = Append(@, op)]

\* Leaving submit_file_to_perforce: by a return statement or by an exception.
\* changed: this step changed the server's state for the other users.
Leave(c, rec, outcome, retval, exception, changed) ==
    /\ cur' = [cur EXCEPT ![c] = [rec EXCEPT !.outcome = outcome,
                                             !.retval = retval,
                                             !.exception = exception,
                                             !.interfered = dirty[c]]]
    /\ pc' = [pc EXCEPT ![c] = "idle"]
    /\ dirty' = [d \in Callers |-> IF d = c THEN FALSE ELSE dirty[d] \/ changed]

Goto(c, rec, label, changed) ==
    /\ cur' = [cur EXCEPT ![c] = rec]
    /\ pc' = [pc EXCEPT ![c] = label]
    /\ dirty' = [d \in Callers |-> IF d = c THEN dirty[d] ELSE dirty[d] \/ changed]

\* (mutant) a failed call is made again
OnP4ExceptionRetried(c, op) ==
    Goto(c, [Logged(c, op) EXCEPT !.failed = op], pc[c], FALSE)

\* except P4Exception: print, return False (lines 225-227)
ExceptP4Return == "False"
OnP4Exception(c, op) ==
    Leave(c, [Logged(c, op) EXCEPT !.failed = op], "Aborted", ExceptP4Return, "", FALSE)

\* any other exception passes the except clause and leaves the function
OnOtherException(c, rec, exc) == Leave(c, rec, "Crash", "none", exc, FALSE)

\* ------------------------------------------------------------- the actions
\* A caller invokes submit_file_to_perforce (lines 195-204) on the local
\* shelf file as the user last saved it.
Start(c) ==
    /\ pc[c] = "idle"
    /\ calls < MaxCalls
    /\ calls' = calls + 1
    /\ \E content \in Contents :
         /\ local' = [local EXCEPT ![c] = content]
         /\ cur' = [cur EXCEPT ![c] = [Fresh(content) EXCEPT
                        !.free = (openedBy = {}),
                        !.change = /\ HeadRev > 0
                                   /\ content # ContentAt(HeadRev)]]
    /\ prev' = [prev EXCEPT ![c] = Summary(cur[c])]
    /\ pc' = [pc EXCEPT ![c] = "connect"]
    /\ UNCHANGED <<depot, openedBy, haveRev, baseRev, ws, dirty, farmvars, dlgvars, sortvars>>

\* line 207: p4.connect()
Connect(c) ==
    /\ pc[c] = "connect"
    /\ \E fault \in BOOLEAN :
         IF fault THEN OnP4Exception(c, "connect")
         ELSE Goto(c, Logged(c, "connect"), "fstat", FALSE)
    /\ UNCHANGED <<depot, openedBy, haveRev, baseRev, ws, local, prev, calls, farmvars, dlgvars, sortvars>>

\* (mutant) checkout_p4_file syncs and edits without asking who holds the file
FstatThenSync(c) ==
    /\ pc[c] = "fstat"
    /\ Goto(c, Logged(c, "fstat"), "sync", FALSE)
    /\ UNCHANGED <<depot, openedBy, haveRev, baseRev, ws, local, prev, calls, farmvars, dlgvars, sortvars>>

\* line 164: file_info = p4.run("fstat", path)[0]
Fstat(c) ==
    /\ pc[c] = "fstat"
    /\ \E fault \in BOOLEAN :
         IF fault THEN OnP4Exception(c, "fstat")
         ELSE LET got == ListGetInt(FstatReply(c), 0) IN
              IF got.exc # ""
              THEN OnOtherException(c, Logged(c, "fstat"), got.exc)
              ELSE Goto(c, [Logged(c, "fstat") EXCEPT
                              !.file_info = <<got.val.haveRev, got.val.headRev>>],
                        "opened", FALSE)
    /\ UNCHANGED <<depot, openedBy, haveRev, baseRev, ws, local, prev, calls, farmvars, dlgvars, sortvars>>

\* p4 sync of the file: the have revision becomes the head; the workspace
\* file is rewritten unless the user holds it open.
SyncEffect(c) ==
    /\ haveRev' = [haveRev EXCEPT ![c] = HeadRev]
    /\ ws' = [ws EXCEPT ![c] = IF c \in openedBy THEN @ ELSE ContentAt(HeadRev)]

\* lines 165-167 and the else branch, lines 177-190:
\* opened_files = p4.run('opened', path); is_checked_out = bool(opened_files)
Opened(c) ==
    /\ pc[c] = "opened"
    /\ \E fault \in BOOLEAN :
         IF fault
         THEN OnP4Exception(c, "opened") /\ UNCHANGED <<haveRev, ws>>
         ELSE
           LET opened_files == OpenedReply
               is_checked_out == opened_files # <<>>
               rec == [Logged(c, "opened") EXCEPT
                          !.sawOther = (openedBy \ {c} # {}),
                          !.sawSelf = (c \in openedBy)]
               user == ListGetKey(opened_files, "user")      \* line 179
           IN
           IF ~is_checked_out
           THEN Goto(c, rec, "sync", FALSE) /\ UNCHANGED <<haveRev, ws>>
           ELSE IF user.exc # ""
           THEN OnOtherException(c, rec, user.exc) /\ UNCHANGED <<haveRev, ws>>
           ELSE IF user.val # c
           THEN \* lines 180-181: show_checked_out_dialog(); return False, and
                \* line 210 returns False in turn
                Leave(c, rec, "DeferredLockedByOther", "False", "", FALSE)
                /\ UNCHANGED <<haveRev, ws>>
           ELSE \* lines 184-190: sync when the have revision is not the head
                IF cur[c].file_info[1] # cur[c].file_info[2]
                THEN Goto(c, [rec EXCEPT !.log = Append(@, "sync")], "copy", FALSE)
                     /\ SyncEffect(c)
                ELSE Goto(c, rec, "copy", FALSE) /\ UNCHANGED <<haveRev, ws>>
    /\ UNCHANGED <<depot, openedBy, baseRev, local, prev, calls, farmvars, dlgvars, sortvars>>

\* line 170: p4.run("sync", path)
Sync(c) ==
    /\ pc[c] = "sync"
    /\ \E fault \in BOOLEAN :
         IF fault
         THEN OnP4Exception(c, "sync") /\ UNCHANGED <<haveRev, ws>>
         ELSE Goto(c, Logged(c, "sync"), "edit", FALSE) /\ SyncEffect(c)
    /\ UNCHANGED <<depot, openedBy, baseRev, local, prev, calls, farmvars, dlgvars, sortvars>>

\* line 171: p4.run("edit", path).  A file that is not on the client is not
\* opened (a warning).  Perforce lets several users open the same file.
Edit(c) ==
    /\ pc[c] = "edit"
    /\ \E fault \in BOOLEAN :
         IF fault
         THEN OnP4Exception(c, "edit") /\ UNCHANGED <<openedBy, baseRev>>
         ELSE IF haveRev[c] = 0
         THEN Goto(c, Logged(c, "edit"), "files", FALSE)
              /\ UNCHANGED <<openedBy, baseRev>>
         ELSE /\ Goto(c, Logged(c, "edit"), "files", TRUE)
              /\ openedBy' = openedBy \cup {c}
              /\ baseRev' = [baseRev EXCEPT ![c] = haveRev[c]]
    /\ UNCHANGED <<depot, haveRev, ws, local, prev, calls, farmvars, dlgvars, sortvars>>

\* lines 173-175: file_info = p4.run("files", path); add when it is empty
Files(c) ==
    /\ pc[c] = "files"
    /\ \E fault \in BOOLEAN, faultAdd \in BOOLEAN :
         IF fault
         THEN OnP4Exception(c, "files") /\ UNCHANGED <<openedBy, baseRev>>
         ELSE IF FilesReply # <<>>
         THEN Goto(c, Logged(c, "files"), "copy", FALSE)
              /\ UNCHANGED <<openedBy, baseRev>>
         ELSE IF faultAdd
         THEN Leave(c, [Logged(c, "files") EXCEPT !.log = Append(@, "add"),
                                                  !.failed = "add"],
                    "Aborted", ExceptP4Return, "", FALSE)
              /\ UNCHANGED <<openedBy, baseRev>>
         ELSE /\ Goto(c, [Logged(c, "files") EXCEPT !.log = Append(@, "add")],
                      "copy", TRUE)
              /\ openedBy' = openedBy \cup {c}
              /\ baseRev' = [baseRev EXCEPT ![c] = 0]
    /\ UNCHANGED <<depot, haveRev, ws, local, prev, calls, farmvars, dlgvars, sortvars>>

\* line 212 (118-122): shutil.copyfile(local_shelf_path, global_shelf_path).
\* An OSError is no P4Exception and leaves the function.
CopyShelf(c) ==
    /\ pc[c] = "copy"
    /\ \E fault \in BOOLEAN :
         IF fault
         THEN OnOtherException(c, [Logged(c, "copy") EXCEPT !.failed = "copy"], "OSError")
              /\ UNCHANGED ws
         ELSE /\ Goto(c, Logged(c, "copy"), "diff", FALSE)
              /\ ws' = [ws EXCEPT ![c] = local[c]]
    /\ UNCHANGED <<depot, openedBy, haveRev, baseRev, local, prev, calls, farmvars, dlgvars, sortvars>>

\* (mutant) the diff result is taken as always non-empty
NoChangesNever(file_diff) == FALSE

\* line 216: if not file_diff
NoChanges(file_diff) == file_diff = <<>>

\* lines 214-216: file_diff = p4.run("diff", path)
Diff(c) ==
    /\ pc[c] = "diff"
    /\ \E fault \in BOOLEAN :
         IF fault THEN OnP4Exception(c, "diff")
         ELSE Goto(c, Logged(c, "diff"),
                   IF NoChanges(DiffReply(c)) THEN "revert" ELSE "submit", FALSE)
    /\ UNCHANGED <<depot, openedBy, haveRev, baseRev, ws, local, prev, calls, farmvars, dlgvars, sortvars>>

\* (mutant) no change detected: return False without reverting
RevertForgotten(c) ==
    /\ pc[c] = "revert"
    /\ Leave(c, cur[c], "SkippedNoChange", "False", "", FALSE)
    /\ UNCHANGED <<depot, openedBy, haveRev, baseRev, ws, local, prev, calls, farmvars, dlgvars, sortvars>>

\* lines 218-219: p4.run("revert", path); return False
Revert(c) ==
    /\ pc[c] = "revert"
    /\ \E fault \in BOOLEAN :
         IF fault
         THEN OnP4Exception(c, "revert") /\ UNCHANGED <<openedBy, ws>>
         ELSE /\ Leave(c, Logged(c, "revert"), "SkippedNoChange", "False", "",
                       c \in openedBy)
              /\ openedBy' = openedBy \ {c}
              /\ ws' = [ws EXCEPT ![c] = IF c \in openedBy
                                         THEN ContentAt(baseRev[c]) ELSE @]
    /\ UNCHANGED <<depot, haveRev, baseRev, local, prev, calls, farmvars, dlgvars, sortvars>>

\* lines 222-223: p4.run("submit", "-d", description); return True.
\* The server refuses (an error, hence P4Exception) when the caller has
\* nothing open or when the open file is based on a revision behind the head.
Submit(c) ==
    /\ pc[c] = "submit"
    /\ \E fault \in BOOLEAN :
         IF fault \/ c \notin openedBy \/ baseRev[c] # HeadRev
         THEN OnP4Exception(c, "submit") /\ UNCHANGED <<depot, openedBy, haveRev>>
         ELSE /\ Leave(c, Logged(c, "submit"), "Published", "True", "", TRUE)
              /\ depot' = Append(depot, ws[c])
              /\ openedBy' = openedBy \ {c}
              /\ haveRev' = [haveRev EXCEPT ![c] = HeadRev + 1]
    /\ UNCHANGED <<baseRev, ws, local, prev, calls, farmvars, dlgvars, sortvars>>

\* nobody has called submit_file_to_perforce
P4Idle ==
    /\ openedBy = {}
    /\ haveRev = [c \in Callers |-> 0]
    /\ baseRev = [c \in Callers |-> 0]
    /\ ws = [c \in Callers |-> NoFile]
    /\ local = [c \in Callers |-> 1]
    /\ pc = [c \in Callers |-> "idle"]
    /\ cur = [c \in Callers |-> Fresh(1)]
    /\ prev = [c \in Callers |-> Summary(Fresh(1))]
    /\ dirty = [c \in Callers |-> FALSE]
    /\ calls = 0

Next ==
    \E c \in Callers :
        \/ Start(c)
        \/ Connect(c)
        \/ Fstat(c)
        \/ Opened(c)
        \/ Sync(c)
        \/ Edit(c)
        \/ Files(c)
        \/ CopyShelf(c)
        \/ Diff(c)
        \/ Revert(c)
        \/ Submit(c)

\* =========================================================================
\* src/houdini/submit_to_deadline.py
\* =========================================================================
\* Paths on the shared drive are sequences of names below FARM_FOLDER (line
\* 7), which is the empty path.  The local files (the scene, the dependency
\* sources) exist; a failing read or write is an injected fault.
FARM_FOLDER == <<>>
Parent(p) == SubSeq(p, 1, Len(p) - 1)
Prefixes(p) == {SubSeq(p, 1, k) : k \in 0..Len(p)}
IsFile(F, p) == \E f \in F : f.path = p
Under(p, d) == Len(p) > Len(d) /\ SubSeq(p, 1, Len(d)) = d

\* os.makedirs(p, exist_ok=...)
MakeDirs(D, F, p, exist_ok) ==
    IF p \in D
    THEN [exc |-> IF exist_ok THEN "" ELSE "FileExistsError", dirs |-> D]
    ELSE IF IsFile(F, p)
    THEN [exc |-> "FileExistsError", dirs |-> D]
    ELSE IF \E q \in Prefixes(p) : IsFile(F, q)
    THEN [exc |-> "NotADirectoryError", dirs |-> D]
    ELSE [exc |-> "", dirs |-> D \cup Prefixes(p)]

\* shutil.copyfile(src, dst): dst must not be a directory and its parent
\* directory must exist.
CopyFile(D, F, src, dst, by, fault) ==
    IF fault THEN [exc |-> "OSError", files |-> F]
    ELSE IF dst \in D THEN [exc |-> "IsADirectoryError", files |-> F]
    ELSE IF Parent(dst) \notin D THEN [exc |-> "FileNotFoundError", files |-> F]
    ELSE [exc |-> "",
          files |-> {f \in F : f.path # dst} \cup {[path |-> dst, by |-> by]}]

\* line 81: the directory that the except clause creates
RetryDirectory(dst) == dst

\* lines 66-84: copy_file_for_render(src, dst).  fault: the first copy
\* fails for a reason of its own (an I/O error).
CopyFileForRender(D, F, src, dst, by, fault) ==
    LET first == CopyFile(D, F, src, dst, by, fault) IN
    IF first.exc = ""
    THEN [result |-> "True", exc |-> "", dirs |-> D, files |-> first.files,
          attempts |-> 1]
    ELSE LET made == MakeDirs(D, F, RetryDirectory(dst), TRUE) IN
         IF made.exc # ""
         THEN [result |-> "raised", exc |-> made.exc, dirs |-> D, files |-> F,
               attempts |-> 1]
         ELSE LET second == CopyFile(made.dirs, F, src, dst, by, FALSE) IN
              IF second.exc = ""
              THEN [result |-> "True", exc |-> "", dirs |-> made.dirs,
                    files |-> second.files, attempts |-> 2]
              ELSE [result |-> "raised", exc |-> second.exc, dirs |-> made.dirs,
                    files |-> F, attempts |-> 2]

\* lines 56-59: TIME = now.strftime("%Y%m%d_%H%M%S"), to the second, and
\* os.path.join(FARM_FOLDER, f"{TIME}_{filename}")
TIME == ToString(now)

\* (mutant) the render folder is named by the time alone
RenderFolderPathTimeOnly(name) == Append(FARM_FOLDER, TIME)

RenderFolderPath(name) == Append(FARM_FOLDER, TIME \o "_" \o name)

\* line 164: os.path.join(destination_folder, f"{self.filename}.hip")
RenderLocation(folder, name) == Append(folder, name \o ".hip")

\* the dependency_files argument of doIt: sources with their place below the
\* render folder
DepFlatA == [src |-> "texA", hint |-> <<"texA.png">>]
DepFlatB == [src |-> "texB", hint |-> <<"texB.png">>]
DepNested == [src |-> "texN", hint |-> <<"tex", "texN.png">>]
DependencyLists == {<<>>, <<DepNested>>, <<DepFlatA, DepFlatB>>}
DependencySources(deps) == [i \in DOMAIN deps |-> deps[i].src]
DependencyHints(deps) == [i \in DOMAIN deps |-> deps[i].hint]

\* one doIt call
NewJob(id, gui, dry, deps) ==
    [id            |-> id,        \* <<submitter object, number of the call>>
     from_open_GUI |-> gui,
     dryrun        |-> dry,
     deps          |-> deps,
     computed      |-> <<"none">>, \* dst_folder as create_render_folder built it
     obtained      |-> FALSE,     \* os.makedirs created it for this call
     done          |-> 0,         \* dependencies copied so far
     copies        |-> <<>>,      \* the copy_file_for_render calls made
     primary       |-> FALSE,     \* staging of the primary artifact was started
     faulted       |-> FALSE,     \* an injected fault hit this call
     triggered     |-> 0,         \* trigger_submit calls
     outcome       |-> "none",    \* "Published" (doIt returned) or "Raised"
     exception     |-> ""]
NoJob == NewJob(<<"none", 0>>, FALSE, FALSE, <<>>)

\* what one copy_file_for_render call did
CopyRecord(dst, r, fault1) ==
    [dst |-> dst,
     missingDirectory |-> (~fault1 /\ dst \notin dirs /\ Parent(dst) \notin dirs),
     attempts |-> r.attempts,
     result |-> r.result,
     exc |-> r.exc,
     present |-> IsFile(r.files, dst)]

Raise(o, rec, exc) ==
    /\ job' = [job EXCEPT ![o] = [rec EXCEPT !.outcome = "Raised", !.exception = exc]]
    /\ fpc' = [fpc EXCEPT ![o] = "idle"]

Return(o, rec) ==
    /\ job' = [job EXCEPT ![o] = [rec EXCEPT !.outcome = "Published"]]
    /\ fpc' = [fpc EXCEPT ![o] = "idle"]

Step(o, rec, label) ==
    /\ job' = [job EXCEPT ![o] = rec]
    /\ fpc' = [fpc EXCEPT ![o] = label]

\* the clock advances
Tick ==
    /\ now < MaxTime
    /\ now' = now + 1
    /\ UNCHANGED <<dirs, files, destination_folder, filename, fpc, job, runs, p4vars, dlgvars, sortvars>>

\* (mutant) the render folder is made with exist_ok=True
ExistOkTrue == TRUE

\* line 60: os.makedirs(dst_folder, exist_ok=False)
ExistOk == FALSE

\* lines 46-63: create_render_folder()
CreateRenderFolder(o, rec) ==
    LET dst_folder == RenderFolderPath(filename[o])
        made == MakeDirs(dirs, files, dst_folder, ExistOk)
        rec2 == [rec EXCEPT !.computed = dst_folder]
    IN
    IF made.exc # ""
    THEN /\ Raise(o, rec2, made.exc)
         /\ UNCHANGED <<dirs, destination_folder>>
    ELSE /\ Step(o, [rec2 EXCEPT !.obtained = TRUE], "primary")
         /\ dirs' = made.dirs
         /\ destination_folder' = [destination_folder EXCEPT ![o] = dst_folder]

\* lines 115-128: doIt(from_open_GUI, dryrun, dependency_files) is called
\* and allocates its render folder
DoIt(o) ==
    /\ fpc[o] = "idle"
    /\ runs < MaxRuns
    /\ runs' = runs + 1
    /\ \E gui \in BOOLEAN, dry \in BOOLEAN, deps \in DependencyLists :
         CreateRenderFolder(o, NewJob(<<o, runs + 1>>, gui, dry, deps))
    /\ UNCHANGED <<now, files, filename, p4vars, dlgvars, sortvars>>

\* self._destination_folder after __init__: SubmitToDeadline.__init__
\* (line 28) sets it to None; HoudiniSubmit.__init__ (lines 146-155) does not
\* call it and sets this_file and filename only, so the attribute is absent.
Classes == {"SubmitToDeadline", "HoudiniSubmit"}
AttributeAbsent == <<"<no attribute>">>
NoneValue == <<"<None>">>
AfterInit(class) ==
    IF class = "SubmitToDeadline" THEN NoneValue ELSE AttributeAbsent

\* lines 32-43: get_render_folder() on an object whose _destination_folder
\* is folder
GetRenderFolder(folder) ==
    IF folder = AttributeAbsent
    THEN [exc |-> "AttributeError", val |-> <<>>]      \* line 40 reads it
    ELSE IF folder = NoneValue
    THEN [exc |-> "RuntimeError", val |-> <<>>]        \* lines 40-41
    ELSE [exc |-> "", val |-> folder]                  \* line 43

\* (mutant) trigger_submit is called whatever dryrun says
AfterStagingAlways(o, rec) ==
    Return(o, [rec EXCEPT !.triggered = @ + 1])

\* lines 140-141: if not dryrun: self.trigger_submit()
AfterStaging(o, rec) ==
    IF rec.dryrun
    THEN Return(o, rec)
    ELSE Return(o, [rec EXCEPT !.triggered = @ + 1])

\* lines 135-138: what follows the primary artifact
MismatchError == "RuntimeError: must have equal number of values"
AfterPrimary(o, rec) ==
    IF rec.deps # <<>>
    THEN Step(o, rec, "dependencies")
    ELSE Raise(o, rec, MismatchError)

\* lines 130-138: the primary artifact.  From an open application:
\* save_and_duplicate_this_file (lines 158-167); from the command line:
\* copy_file_for_render(self.this_file, dst_folder).
StagePrimary(o) ==
    /\ fpc[o] = "primary"
    /\ LET dst_folder == job[o].computed
           rec == [job[o] EXCEPT !.primary = TRUE]
           got == GetRenderFolder(destination_folder[o])      \* line 163
       IN
       IF job[o].from_open_GUI
       THEN IF got.exc # ""
            THEN Raise(o, rec, got.exc) /\ UNCHANGED <<dirs, files>>
            ELSE LET render_location == RenderLocation(got.val, filename[o])
                 IN
                 /\ AfterPrimary(o, rec)
                 /\ files' = {f \in files : f.path # render_location}
                             \cup {[path |-> render_location, by |-> job[o].id]}
                 /\ UNCHANGED dirs
       ELSE \E fault \in BOOLEAN :
            LET r == CopyFileForRender(dirs, files, "this_file", dst_folder,
                                       job[o].id, fault)
                rec2 == [rec EXCEPT !.copies = Append(@, CopyRecord(dst_folder, r, fault)),
                                    !.faulted = fault]
            IN
            /\ IF r.exc # "" THEN Raise(o, rec2, r.exc) ELSE AfterPrimary(o, rec2)
            /\ dirs' = r.dirs
            /\ files' = r.files
    /\ UNCHANGED <<now, destination_folder, filename, runs, p4vars, dlgvars, sortvars>>

\* line 136: self.copy_dependencies(dependency_files), one dependency at a
\* time: each goes to its hint below the render folder by
\* copy_file_for_render; lines 140-141 follow the last one.
CopyDependencies(o) ==
    /\ fpc[o] = "dependencies"
    /\ \E fault \in BOOLEAN :
         LET dep == job[o].deps[job[o].done + 1]
             dst == job[o].computed \o dep.hint
             r == CopyFileForRender(dirs, files, dep.src, dst, job[o].id, fault)
             rec == [job[o] EXCEPT !.copies = Append(@, CopyRecord(dst, r, fault)),
                                   !.faulted = @ \/ fault,
                                   !.done = IF r.exc = "" THEN @ + 1 ELSE @]
         IN
         /\ IF r.exc # "" THEN Raise(o, rec, r.exc)
            ELSE IF rec.done < Len(rec.deps) THEN Step(o, rec, "dependencies")
            ELSE AfterStaging(o, rec)
         /\ dirs' = r.dirs
         /\ files' = r.files
    /\ UNCHANGED <<now, destination_folder, filename, runs, p4vars, dlgvars, sortvars>>

\* the render submission, not started: HoudiniSubmit.__init__ (lines 146-155)
\* sets this_file and filename, and not _destination_folder
FarmIdle ==
    /\ now = 0
    /\ dirs = {FARM_FOLDER}
    /\ files = {}
    /\ destination_folder = [o \in Submitters |-> AfterInit("HoudiniSubmit")]
    /\ fpc = [o \in Submitters |-> "idle"]
    /\ job = [o \in Submitters |-> NoJob]
    /\ runs = 0

\* lines 319-322 of save_callback: what the caller of
\* submit_file_to_perforce makes of the returned value.
SaveCallbackResult(depot_save) ==
    IF depot_save = "True" THEN "return True" ELSE "RuntimeError"

\* ------------------------------------------------------- the save dialog
MaxDepth == 2      \* save_callback frames that 'Try Again' nests

\* constants.py, imported at line 21
LOCAL_SHELF_DIR == "LOCAL_SHELF_DIR"
PRESET_SHELF_DIR == "PRESET_SHELF_DIR"
GLOBAL_SHELF_DIR == "GLOBAL_SHELF_DIR"

\* lines 72-76: directories
Directories ==
    [k \in {"local", "preset", "global"} |->
        IF k = "local" THEN LOCAL_SHELF_DIR
        ELSE IF k = "preset" THEN PRESET_SHELF_DIR
        ELSE GLOBAL_SHELF_DIR]

\* dict.get(key, default)
DictGet(d, key, default) == IF key \in DOMAIN d THEN d[key] ELSE default

\* line 78: the default of directories.get
InvalidKeyword == "Invalid keyword"

\* the values get_shelf_dir_by_context is called with, and the paths that
\* may or may not be directories
ShelfContexts == DOMAIN Directories \cup {"Global", "", InvalidKeyword}
ShelfPaths == {Directories[k] : k \in DOMAIN Directories} \cup {InvalidKeyword}

InvalidContextError == "RuntimeError: Invalid shelf context selected"
NotADirectoryError == "RuntimeError: is not a directory"

\* lines 68-86: get_shelf_dir_by_context(shelf_context), with D the paths
\* that are directories.  probed: the paths handed to os.path.isdir.
GetShelfDirByContext(shelf_context, D) ==
    LET shelf_directory == DictGet(Directories, shelf_context, InvalidKeyword) IN
    IF shelf_context = InvalidKeyword                                \* line 80
    THEN [exc |-> InvalidContextError, val |-> "", probed |-> {}]
    ELSE IF shelf_directory \notin D                                 \* line 83
    THEN [exc |-> NotADirectoryError, val |-> "", probed |-> {shelf_directory}]
    ELSE [exc |-> "", val |-> shelf_directory, probed |-> {shelf_directory}]

NoCall == [context |-> "<none>", exc |-> "", val |-> "", probed |-> {}]

\* get_shelf_dir_by_context is called (lines 93 and 112, or from outside)
CallGetShelfDir ==
    /\ \E shelf_context \in ShelfContexts :
         LET r == GetShelfDirByContext(shelf_context, isdir) IN
         shelf' = [context |-> shelf_context, exc |-> r.exc, val |-> r.val,
                   probed |-> r.probed]
    /\ UNCHANGED <<isdir, local_save_only, depth, dpc, dlg, p4vars, farmvars, sortvars>>

\* what the dialog did since Save was pressed
NoDialog ==
    [log       |-> <<>>,     \* calls and answers, in order
     p4ops     |-> 0,        \* submit_file_to_perforce bodies run
     finished  |-> FALSE,    \* the outermost save_callback is over
     returned  |-> "none",   \* the value it returned
     exception |-> ""]       \* the exception that left it

Event(rec, e) == [rec EXCEPT !.log = Append(@, e)]

\* an exception that no frame catches leaves every save_callback frame
Unwind(rec, exc) ==
    /\ dlg' = [rec EXCEPT !.finished = TRUE, !.exception = exc]
    /\ depth' = 0
    /\ dpc' = "idle"

\* lines 299-302: save_callback is entered above `below` frames
EnterSaveCallback(rec, below) ==
    LET rec2 == Event(rec, "save_callback")
        got == GetShelfDirByContext("local", isdir)      \* lines 302, 112
    IN
    IF got.exc # ""
    THEN Unwind(rec2, got.exc)
    ELSE /\ dlg' = rec2
         /\ depth' = below + 1
         /\ dpc' = "save"

\* save_callback returns.  The outermost frame returns to Maya; an inner
\* one returns into the loop of lines 307-308, whose try_again is still
\* True, and the loop calls save_callback again.
ReturnFromSaveCallback(rec, value) ==
    IF depth = 1
    THEN /\ dlg' = [rec EXCEPT !.finished = TRUE, !.returned = value]
         /\ depth' = 0
         /\ dpc' = "idle"
    ELSE EnterSaveCallback(rec, depth - 1)

\* the user presses Save (line 294: command=self.save_callback)
SaveClicked ==
    /\ dpc = "idle" /\ depth = 0 /\ ~dlg.finished
    /\ EnterSaveCallback(dlg, 0)
    /\ UNCHANGED <<isdir, shelf, local_save_only, p4vars, farmvars, sortvars>>

\* lines 303-305: saved = self.save_local_shelf()
SaveLocalShelf ==
    /\ dpc = "save"
    /\ \E saved \in BOOLEAN :
         /\ dlg' = Event(dlg, IF saved THEN "save:True" ELSE "save:False")
         /\ dpc' = IF saved THEN "after" ELSE "ask"
    /\ UNCHANGED <<isdir, shelf, local_save_only, depth, p4vars, farmvars, sortvars>>

\* lines 306-308 and 331-354: try_again = self.ask_to_try_again(), and
\* while try_again: self.save_callback()
AskToTryAgain ==
    /\ dpc = "ask"
    /\ \E result \in {"Try Again", "Cancel"} :
         IF result = "Try Again"
         THEN /\ depth < MaxDepth
              /\ EnterSaveCallback(Event(dlg, result), depth)
         ELSE /\ dlg' = Event(dlg, result)       \* cancel_callback, False
              /\ dpc' = "after"
              /\ UNCHANGED depth
    /\ UNCHANGED <<isdir, shelf, local_save_only, p4vars, farmvars, sortvars>>

\* (mutant) the check box is read from an attribute that exists
SaveContextDefinedTrue == TRUE

\* line 310 reads self.save_context; create_dialog (line 290) sets
\* self.save_context_option and nothing sets save_context
SaveContextDefined == FALSE

\* line 195: def submit_file_to_perforce(p4, global_shelf_path,
\* local_shelf_path); line 317: submit_file_to_perforce(self.global_shelf_path)
SubmitParameters == 3
SubmitArguments == 1
CallSubmitFileToPerforce ==
    IF SubmitArguments # SubmitParameters THEN "TypeError" ELSE ""

\* lines 310-322: the rest of save_callback
AfterSave ==
    /\ dpc = "after"
    /\ LET rec == Event(dlg, "line 310") IN
       IF ~SaveContextDefined
       THEN Unwind(rec, "AttributeError")
       ELSE IF local_save_only
       THEN ReturnFromSaveCallback(Event(rec, "success dialog"), "None")
       ELSE LET rec2 == Event(rec, "submit") IN
            IF CallSubmitFileToPerforce # ""
            THEN Unwind(rec2, CallSubmitFileToPerforce)
            ELSE \E depot_save \in {"True", "False"} :
                   LET rec3 == [rec2 EXCEPT !.p4ops = @ + 1] IN
                   IF SaveCallbackResult(depot_save) = "return True"
                   THEN ReturnFromSaveCallback(rec3, "True")
                   ELSE Unwind(rec3, "RuntimeError")
    /\ UNCHANGED <<isdir, shelf, local_save_only, p4vars, farmvars, sortvars>>

\* the dialog not opened, the shelf directories in place
DialogIdle ==
    /\ isdir = ShelfPaths \ {InvalidKeyword}
    /\ shelf = NoCall
    /\ local_save_only = FALSE
    /\ depth = 0
    /\ dpc = "idle"
    /\ dlg = NoDialog

\* ---------------------------------------------------- the shelf ordering
MaxLen == 3        \* shelf names in one directory listing

\* line 24
SHELF_ORDER ==
    <<"Shotgrid", "vm_AI", "vm_Assets", "vm_Metahumans", "vm_Rigging",
      "vm_AnimTools", "vm_Utils", "Custom">>

\* the shelf names a directory may hold: some of SHELF_ORDER and some not
ShelfNames == {"Shotgrid", "vm_Rigging", "Custom", "aTools", "zTools"}

\* list.index(elem): the first position (from 0), or ValueError
ListIndex(list, elem) ==
    IF \E i \in DOMAIN list : list[i] = elem
    THEN [exc |-> "",
          val |-> (CHOOSE i \in DOMAIN list :
                      /\ list[i] = elem
                      /\ \A j \in 1..(i - 1) : list[j] # elem) - 1]
    ELSE [exc |-> "ValueError", val |-> 0]

\* (mutant) a name that is not in the reference list gets the first index
CustomKeyMissingFirst(elem) ==
    LET found == ListIndex(SHELF_ORDER, elem) IN
    IF found.exc = "" THEN found.val ELSE 0

\* lines 55-60: custom_key(elem)
CustomKey(elem) ==
    LET found == ListIndex(SHELF_ORDER, elem) IN
    IF found.exc = "" THEN found.val ELSE Len(SHELF_ORDER)

\* sorted(list, key=...) is stable: an element goes behind every element
\* already placed whose key is not greater than its own
InsertByKey(list, elem) ==
    LET before == {i \in 0..Len(list) :
                      \A j \in 1..i : CustomKey(list[j]) <= CustomKey(elem)}
        at == CHOOSE i \in before : \A k \in before : k <= i
    IN SubSeq(list, 1, at) \o <<elem>> \o SubSeq(list, at + 1, Len(list))

RECURSIVE SortedByKey(_)
SortedByKey(list) ==
    IF list = <<>> THEN <<>>
    ELSE InsertByKey(SortedByKey(SubSeq(list, 1, Len(list) - 1)), list[Len(list)])

\* lines 48-64: sort_shelves_from_ref_list(shelf_list)
SortShelvesFromRefList(list) == SortedByKey(list)

NotSorted == <<"<not sorted>">>

\* line 101: ordered_list = sort_shelves_from_ref_list(shelf_list)
GetOrderedShelves ==
    /\ ordered_list = NotSorted
    /\ ordered_list' = SortShelvesFromRefList(shelf_list)
    /\ UNCHANGED <<shelf_list, p4vars, farmvars, dlgvars>>

\* the ordering not asked for
SortIdle ==
    /\ shelf_list = <<>>
    /\ ordered_list = NotSorted

Init ==
    /\ depot \in {<<>>} \cup {<<x>> : x \in Contents}
    /\ P4Idle
    /\ FarmIdle
    /\ filename = [o \in Submitters |-> "sceneA"]
    /\ DialogIdle
    /\ SortIdle

InitFarm ==
    /\ depot = <<1>>
    /\ P4Idle
    /\ FarmIdle
    /\ filename \in {f \in [Submitters -> Names] : f["s1"] = "sceneA"}
    /\ DialogIdle
    /\ SortIdle

\* the dialog as main() (lines 366-369) opens it, over any state of the
\* shelf directories and of the check box
InitDialog ==
    /\ depot = <<1>>
    /\ P4Idle
    /\ FarmIdle
    /\ filename = [o \in Submitters |-> "sceneA"]
    /\ isdir \in SUBSET ShelfPaths
    /\ shelf = NoCall
    /\ local_save_only \in BOOLEAN
    /\ depth = 0
    /\ dpc = "idle"
    /\ dlg = NoDialog
    /\ SortIdle

\* a shelf directory with any names in any order (lines 96-99)
ShelfLists == UNION {[1..n -> ShelfNames] : n \in 0..MaxLen}
InitSort ==
    /\ depot = <<1>>
    /\ P4Idle
    /\ FarmIdle
    /\ filename = [o \in Submitters |-> "sceneA"]
    /\ DialogIdle
    /\ shelf_list \in ShelfLists
    /\ ordered_list = NotSorted

NextFarm ==
    \/ Tick
    \/ \E o \in Submitters :
        \/ DoIt(o)
        \/ StagePrimary(o)
        \/ CopyDependencies(o)

vars == <<p4vars, farmvars, dlgvars, sortvars>>
Spec == Init /\ [][Next]_vars
SpecFarm == InitFarm /\ [][NextFarm]_vars

\* Maya runs a callback to its end once it has started it, and the user
\* answers the dialog that waits for an answer
DialogFlow == SaveLocalShelf \/ AskToTryAgain \/ AfterSave
NextDialog == CallGetShelfDir \/ SaveClicked \/ DialogFlow
SpecDialog == InitDialog /\ [][NextDialog]_vars /\ WF_vars(DialogFlow)

NextSort == GetOrderedShelves
SpecSort == InitSort /\ [][NextSort]_vars

\* ------------------------------------------------------------------ claims
Count(log, op) == Cardinality({i \in DOMAIN log : log[i] = op})
Completed(rec, op) == Count(rec.log, op) > 0 /\ rec.failed # op

\* the invocation is over, by a return or by an escaped exception
Ended(c) == pc[c] = "idle" /\ cur[c].outcome # "none"
\* the invocation is over by one of the return statements
Returned(c) == Ended(c) /\ cur[c].outcome # "Crash"
\* nobody held the destination open at the call, no call failed, and no
\* other user touched the server since the caller's previous invocation ended
Undisturbed(c) == cur[c].free /\ cur[c].failed = "" /\ ~cur[c].interfered

C2_DeferredWhenLockedByOther ==
    \A c \in Callers :
        (Ended(c) /\ cur[c].sawOther /\ ~cur[c].sawSelf)
            => /\ cur[c].outcome = "DeferredLockedByOther"
               /\ \A op \in {"copy", "sync", "edit", "submit"} :
                      Count(cur[c].log, op) = 0

\* C3: every invocation ends with one of the four outcomes; no exception
\* leaves submit_file_to_perforce.
C3_OutcomeIsEnumerated ==
    \A c \in Callers :
        Ended(c) => /\ cur[c].outcome \in {"Published", "SkippedNoChange",
                                           "DeferredLockedByOther", "Aborted"}
                    /\ cur[c].exception = ""

\* C4: an invocation that returned after its edit went through, with neither
\* its submit nor its revert completed, returned Aborted; under Published,
\* SkippedNoChange or DeferredLockedByOther the caller does not hold the
\* destination open.
C4_HalfModifiedIsAborted ==
    \A c \in Callers :
        /\ (Returned(c) /\ Completed(cur[c], "edit")
                        /\ ~Completed(cur[c], "submit")
                        /\ ~Completed(cur[c], "revert"))
              => (cur[c].outcome = "Aborted" /\ cur[c].retval = "False")
        /\ (Returned(c) /\ cur[c].outcome \in {"Published", "SkippedNoChange",
                                               "DeferredLockedByOther"})
              => c \notin openedBy

C4_Witness ==
    \E c \in Callers :
        /\ Returned(c) /\ Completed(cur[c], "edit")
        /\ ~Completed(cur[c], "submit") /\ ~Completed(cur[c], "revert")
        /\ c \in openedBy
        /\ cur[c].outcome = "Aborted"

\* C5: within an invocation every edit, add and copy over the shared file
\* comes after the "opened" query, and no "opened" query comes after one.
Destructive == {"edit", "add", "copy"}
C5_QueryBeforeModification ==
    \A c \in Callers :
        LET log == cur[c].log IN
        \A i \in DOMAIN log :
            log[i] \in Destructive
                => /\ \E j \in 1..(i - 1) : log[j] = "opened"
                   /\ \A j \in (i + 1)..Len(log) : log[j] # "opened"

C5_Witness ==
    \E c \in Callers :
        /\ Completed(cur[c], "opened")
        /\ Completed(cur[c], "edit")
        /\ Completed(cur[c], "copy")

\* C10: an invocation that ended SkippedNoChange or DeferredLockedByOther
\* hands its caller a value that differs from the one a failure returns, and
\* save_callback does not raise on it.
C10_InformationalNotError ==
    \A c \in Callers :
        (Returned(c) /\ cur[c].outcome \in {"SkippedNoChange", "DeferredLockedByOther"})
            => /\ cur[c].retval # ExceptP4Return
               /\ SaveCallbackResult(cur[c].retval) # "RuntimeError"

\* the caller is past checkout_p4_file (line 210 let it through): at the copy
\* over the shared file, or at diff, revert or submit
PastArbitration(c) == pc[c] \in {"copy", "diff", "revert", "submit"}

\* C11: of two callers publishing to the same destination at most one is
\* past the arbitration at a time, and a caller is past it only while the
\* server has that caller, and nobody else, holding the destination open.
C11_OneCallerPastArbitration ==
    /\ \A c1 \in Callers, c2 \in Callers :
           (PastArbitration(c1) /\ PastArbitration(c2)) => c1 = c2
    /\ \A c \in Callers : PastArbitration(c) => openedBy = {c}

Index(log, op) == CHOOSE i \in DOMAIN log : log[i] = op

\* C12: an invocation whose "opened" query named nobody, no call failing,
\* issued one sync and then one edit and was let through to the copy; and
\* when fstat found no history the file was added before the edit.
C12_SyncThenEditAddBefore ==
    \A c \in Callers :
        LET log == cur[c].log IN
        /\ (Ended(c) /\ Completed(cur[c], "opened") /\ cur[c].failed = ""
                     /\ ~cur[c].sawOther /\ ~cur[c].sawSelf)
              => /\ Count(log, "sync") = 1
                 /\ Count(log, "edit") = 1
                 /\ Index(log, "sync") < Index(log, "edit")
                 /\ Count(log, "copy") = 1
        /\ (Ended(c) /\ Completed(cur[c], "fstat") /\ cur[c].failed = ""
                     /\ cur[c].file_info = <<>>)
              => /\ Count(log, "add") = 1
                 /\ Count(log, "edit") = 1
                 /\ Index(log, "add") < Index(log, "edit")

\* C13: an invocation whose "opened" query named the caller alone, no call
\* failing, was let through to the copy without an edit, with one sync when
\* its have revision was behind the head and with none when it was not.
C13_SelfLockedSyncsIfBehind ==
    \A c \in Callers :
        LET log == cur[c].log IN
        (Ended(c) /\ Completed(cur[c], "opened") /\ cur[c].failed = ""
                  /\ cur[c].sawSelf /\ ~cur[c].sawOther)
            => /\ Count(log, "copy") = 1
               /\ Count(log, "edit") = 0
               /\ Count(log, "sync") =
                      (IF cur[c].file_info[1] < cur[c].file_info[2] THEN 1 ELSE 0)

RevisionControlCalls ==
    {"connect", "fstat", "opened", "sync", "edit", "files", "add",
     "diff", "revert", "submit"}

\* C14: the call that failed is the last thing its invocation did, it was
\* made once, and the invocation returned Aborted (False) at that step; no
\* revision-control call is made twice in one invocation, submit included.
C14_NoRetryAfterFailure ==
    \A c \in Callers :
        LET log == cur[c].log IN
        /\ cur[c].failed \in RevisionControlCalls
              => /\ pc[c] = "idle"
                 /\ log[Len(log)] = cur[c].failed
                 /\ cur[c].outcome = "Aborted"
                 /\ cur[c].retval = "False"
        /\ \A op \in RevisionControlCalls : Count(log, op) <= 1

C14_Witness ==
    \E c \in Callers :
        /\ Ended(c)
        /\ cur[c].failed = "submit"
        /\ Completed(cur[c], "copy")
        /\ cur[c].outcome = "Aborted"

\* ------------------------------------------------- claims on the render farm
RenderFolderOf(p) == SubSeq(p, 1, 1)
FilesIn(folder) == {f \in files : Under(f.path, folder)}
FilesBy(id) == {f \in files : f.by = id}
Over(o) == fpc[o] = "idle" /\ job[o].outcome # "none"

\* C6: of two doIt calls that build the same render folder path at most one
\* obtains the folder; the other raises FileExistsError before it stages
\* anything; and the files below one render folder all come from one call.
C6_OneRequestPerSlot ==
    /\ \A f1 \in files, f2 \in files :
           RenderFolderOf(f1.path) = RenderFolderOf(f2.path) => f1.by = f2.by
    /\ \A o1 \in Submitters, o2 \in Submitters :
           (o1 # o2 /\ job[o1].computed # <<"none">>
                    /\ job[o1].computed = job[o2].computed)
               => ~(job[o1].obtained /\ job[o2].obtained)
    /\ \A o \in Submitters :
           (job[o].computed # <<"none">> /\ ~job[o].obtained)
               => /\ Over(o)
                  /\ job[o].exception = "FileExistsError"
                  /\ ~job[o].primary
                  /\ job[o].copies = <<>>
                  /\ FilesBy(job[o].id) = {}

C6_Witness ==
    \E o1 \in Submitters, o2 \in Submitters :
        /\ o1 # o2
        /\ job[o1].computed = job[o2].computed
        /\ job[o1].obtained
        /\ FilesBy(job[o1].id) # {}
        /\ Over(o2) /\ job[o2].exception = "FileExistsError"
        /\ FilesIn(job[o2].computed) = FilesBy(job[o1].id)

\* C7: doIt raises the "must have equal number of values" error exactly
\* when the dependency sources and the destination hints differ in number,
\* and then nothing was copied or written before.
C7_MismatchIffCountsDiffer ==
    \A o \in Submitters :
        Over(o) =>
            /\ (job[o].exception = MismatchError)
                  <=> (Len(DependencySources(job[o].deps))
                          # Len(DependencyHints(job[o].deps)))
            /\ (job[o].exception = MismatchError)
                  => /\ ~job[o].primary
                     /\ job[o].copies = <<>>
                     /\ FilesBy(job[o].id) = {}

\* C8: a copy_file_for_render call makes at most two copy attempts, returns
\* True only with the file at dst, and when the first attempt failed for a
\* missing destination directory the retry puts the file at dst.
C8_RetryAfterDirectoryCreation ==
    \A o \in Submitters :
        \A i \in DOMAIN job[o].copies :
            LET c == job[o].copies[i] IN
            /\ c.attempts <= 2
            /\ (c.result = "True" => c.present)
            /\ c.missingDirectory
                  => (c.attempts = 2 /\ c.result = "True" /\ c.present)

\* C9: a doIt call that obtained its render folder and met no injected fault
\* returns (Published) with k + 1 files in the folder, from an open
\* application and from the command line alike.
C9_PublishedWithAllFiles ==
    \A o \in Submitters :
        (Over(o) /\ job[o].obtained /\ ~job[o].faulted)
            => /\ job[o].outcome = "Published"
               /\ Cardinality(FilesIn(job[o].computed)) = Len(job[o].deps) + 1
               /\ FilesIn(job[o].computed) = FilesBy(job[o].id)

\* C15: render folder paths built for different file names differ, and a
\* doIt call that obtains its render folder obtains one that did not exist
\* before the call and that is not the folder its object held until then.
C15_DistinctFreshSlots ==
    [][/\ \A o1 \in Submitters, o2 \in Submitters :
              (/\ job'[o1].computed # <<"none">>
               /\ job'[o2].computed # <<"none">>
               /\ filename'[o1] # filename'[o2])
                  => job'[o1].computed # job'[o2].computed
       /\ \A o \in Submitters :
              (job'[o].id # job[o].id /\ job'[o].obtained)
                  => /\ job'[o].computed \notin dirs
                     /\ job'[o].computed \in dirs'
                     /\ job'[o].computed # destination_folder[o]
                     /\ destination_folder'[o] = job'[o].computed]_vars

C15_Witness ==
    \E o \in Submitters, p \in Submitters :
        /\ now = 0
        /\ filename[p] # filename[o]
        /\ job[o].obtained /\ job[p].obtained
        /\ job[o].computed # job[p].computed
        /\ {job[o].computed, job[p].computed} \subseteq dirs

\* C16: a doIt call with dryrun=True never calls trigger_submit; a call
\* with dryrun=False calls it at most once, and only after the render folder
\* was obtained and the primary artifact and every dependency were staged; a
\* call that returned staged the same whatever dryrun was.
C16_DryRunSkipsSubmitOnly ==
    \A o \in Submitters :
        /\ job[o].dryrun => job[o].triggered = 0
        /\ job[o].triggered <= 1
        /\ job[o].triggered = 1
              => /\ ~job[o].dryrun
                 /\ job[o].obtained /\ job[o].primary
                 /\ job[o].done = Len(job[o].deps)
                 /\ \A i \in DOMAIN job[o].copies : job[o].copies[i].result = "True"
        /\ (Over(o) /\ job[o].outcome = "Published")
              => /\ job[o].triggered = (IF job[o].dryrun THEN 0 ELSE 1)
                 /\ job[o].obtained /\ job[o].primary
                 /\ job[o].done = Len(job[o].deps)
                 /\ Cardinality(FilesBy(job[o].id)) = Len(job[o].deps) + 1

C16_Witness ==
    \E o1 \in Submitters, o2 \in Submitters :
        /\ Over(o1) /\ job[o1].outcome = "Published"
        /\ job[o1].dryrun /\ job[o1].triggered = 0
        /\ Over(o2) /\ job[o2].outcome = "Published"
        /\ ~job[o2].dryrun /\ job[o2].triggered = 1
        /\ job[o1].deps = job[o2].deps
        /\ Cardinality(FilesBy(job[o1].id)) = Cardinality(FilesBy(job[o2].id))

\* C17: get_render_folder raises RuntimeError on an object of either class
\* as its __init__ leaves it and on an object that has not run doIt, and on
\* an object whose doIt obtained a render folder it returns that folder.
C17_RuntimeErrorUntilCreated ==
    /\ \A class \in Classes :
           GetRenderFolder(AfterInit(class)).exc = "RuntimeError"
    /\ \A o \in Submitters :
           LET got == GetRenderFolder(destination_folder[o]) IN
           /\ job[o].id = NoJob.id => got.exc = "RuntimeError"
           /\ job[o].obtained => (got.exc = "" /\ got.val = job[o].computed)

\* ---------------------------------------------------- claims on the dialog
SaveAttempts == {"save:True", "save:False"}
\* a save attempt succeeded or the user chose 'Cancel'
Settled == \E i \in DOMAIN dlg.log : dlg.log[i] \in {"save:True", "Cancel"}

\* C18: after 'Try Again' save_callback is entered and the save attempted
\* again; once a save attempt succeeded or the user chose 'Cancel',
\* save_callback is not entered and no save is attempted any more, and the
\* outermost save_callback comes to its end.
C18_RetryLoopTerminates ==
    /\ [](\A i \in DOMAIN dlg.log :
            /\ dlg.log[i] = "Try Again"
                  => IF i < Len(dlg.log) THEN dlg.log[i + 1] = "save_callback"
                     ELSE FALSE
            /\ (dlg.log[i] = "save_callback" /\ i > 1 /\ ~dlg.finished)
                  => IF i < Len(dlg.log) THEN dlg.log[i + 1] \in SaveAttempts
                     ELSE dpc = "save"
            /\ dlg.log[i] \in {"save:True", "Cancel"}
                  => \A j \in (i + 1)..Len(dlg.log) :
                         dlg.log[j] \notin SaveAttempts \cup {"save_callback"})
    /\ (Settled ~> dlg.finished)

C18_Witness ==
    /\ dlg.finished
    /\ \E i \in DOMAIN dlg.log :
          /\ dlg.log[i] = "Try Again"
          /\ \E j \in (i + 1)..Len(dlg.log) : dlg.log[j] = "save:True"

\* C19: save_callback comes to its call of submit_file_to_perforce only
\* with the check box unchecked and with its last save attempt successful;
\* after a 'Cancel', with the check box checked or without a successful
\* save, no call of it is made and no Perforce operation runs.
C19_SubmitOnlyAfterSavedAndUnchecked ==
    LET log == dlg.log
        Submits == {j \in DOMAIN log : log[j] = "submit"}
    IN
    /\ \A j \in Submits :
           /\ ~local_save_only
           /\ \E i \in 1..(j - 1) :
                 /\ log[i] = "save:True"
                 /\ \A k \in (i + 1)..(j - 1) : log[k] \notin SaveAttempts \cup {"Cancel"}
    /\ (\/ local_save_only
        \/ \E i \in DOMAIN log : log[i] = "Cancel"
        \/ ~\E i \in DOMAIN log : log[i] = "save:True")
           => (Submits = {} /\ dlg.p4ops = 0)
    /\ dlg.p4ops > 0 => Submits # {}

C19_Witness ==
    /\ dlg.finished
    /\ ~local_save_only
    /\ \E i \in DOMAIN dlg.log : dlg.log[i] = "save:False"
    /\ dlg.log[Len(dlg.log) - 1] = "Cancel"
    /\ dlg.p4ops = 0

\* C20: get_shelf_dir_by_context raises the 'Invalid shelf context selected'
\* error for every context but 'local', 'preset' and 'global', and asks the
\* file system nothing for it; for these three it returns the directory
\* when it is one and raises the 'is not a directory' error when it is not.
C20_InvalidContextRejectedUnprobed ==
    shelf # NoCall =>
        IF shelf.context \in {"local", "preset", "global"}
        THEN IF Directories[shelf.context] \in isdir
             THEN shelf.exc = "" /\ shelf.val = Directories[shelf.context]
             ELSE shelf.exc = NotADirectoryError
        ELSE shelf.exc = InvalidContextError /\ shelf.probed = {}

\* ------------------------------------------------ claims on the ordering
InShelfOrder(x) == \E i \in DOMAIN SHELF_ORDER : SHELF_ORDER[i] = x
NotInShelfOrder(x) == ~InShelfOrder(x)
PlaceInShelfOrder(x) == CHOOSE i \in DOMAIN SHELF_ORDER : SHELF_ORDER[i] = x

\* C21: the list sort_shelves_from_ref_list returns holds every name as
\* often as its input does; names of SHELF_ORDER stand in SHELF_ORDER
\* order, no other name stands before one of them, and the other names
\* stand in the order the input had them in.
C21_SortedPermutationByShelfOrder ==
    ordered_list # NotSorted =>
        /\ Len(ordered_list) = Len(shelf_list)
        /\ \A x \in ShelfNames : Count(ordered_list, x) = Count(shelf_list, x)
        /\ \A i \in DOMAIN ordered_list, j \in DOMAIN ordered_list :
              i < j =>
                 /\ (InShelfOrder(ordered_list[i]) /\ InShelfOrder(ordered_list[j]))
                       => PlaceInShelfOrder(ordered_list[i])
                             <= PlaceInShelfOrder(ordered_list[j])
                 /\ ~(NotInShelfOrder(ordered_list[i]) /\ InShelfOrder(ordered_list[j]))
        /\ SelectSeq(ordered_list, NotInShelfOrder)
              = SelectSeq(shelf_list, NotInShelfOrder)

C21_Witness ==
    /\ shelf_list = <<"zTools", "Custom", "aTools">>
    /\ ordered_list = <<"Custom", "zTools", "aTools">>

====
